---- MODULE Spec2Model ----
(***************************************************************************)
(* Model of apis/tankerkoenig.js (MMM-Fuel): the provider module that      *)
(* queries tankerkoenig.de, filters and normalises the stations and        *)
(* returns them ordered by price and by distance.                          *)
(*                                                                         *)
(* JavaScript runs getData to completion between two awaits, so every      *)
(* action below is one synchronous stretch of getData (or one construction *)
(* call).  Numbers are fixed-point integers: prices in whole units,        *)
(* distances in metres (a JS distance of 111.195 km is the integer 111195).*)
(* Strings that the code slices are sequences of one-character strings.    *)
(***************************************************************************)
EXTENDS Integers, Sequences, FiniteSets, TLC

VARIABLES
    config,     \* line 25: the module-wide `let config`
    owner,      \* the options given to the construction call whose getData is invoked
    pc,         \* where the getData invocation is suspended
    i,          \* line 187: loop counter of the detail loop
    stations,   \* line 171: the local `stations`
    result,     \* <<>> or <<the object getData resolved with>>
    error,      \* "" or the message getData rejected with
    reqs,       \* history: the urls handed to fetch, in order
    outcomes,   \* history: how each finished request ended ("ok"/"notok": the body's `ok`)
    arrived,    \* history: the stations of the parsed `ok` responses, in order
    cfgRead     \* history: the configuration object the last getData step read

vars == <<config, owner, pc, i, stations, result, error, reqs, outcomes, arrived, cfgRead>>

-----------------------------------------------------------------------------
(* Bounds of the model.                                                    *)

\* longest `stations` list of an area response
MaxStations == 4
\* longest `onlyStations` list of a configuration
MaxIds == 2

-----------------------------------------------------------------------------
(* JavaScript values and strings.                                          *)

BASE_URL == "https://creativecommons.tankerkoenig.de/json/list.php"
BASE_URL_DETAIL == "https://creativecommons.tankerkoenig.de/json/detail.php"

\* Number.MAX_SAFE_INTEGER is 2^53 - 1; only its sign reaches Array.prototype.sort,
\* and the largest 32-bit integer stands for it.
MAX_SAFE_INTEGER == 2147483647
MIN_SAFE_INTEGER == -2147483647

\* A JS value that is a number (in metres) or a string (of characters).
JsNumber(n) == [typeof |-> "number", num |-> n, str |-> <<>>]
JsString(s) == [typeof |-> "string", num |-> 0, str |-> s]

DigitChar(d) == <<"0", "1", "2", "3", "4", "5", "6", "7", "8", "9">>[d + 1]

\* String(n) for a non-negative integer n: its decimal digits.
RECURSIVE Digits(_)
Digits(n) == IF n < 10 THEN <<DigitChar(n)>> ELSE Digits(n \div 10) \o <<DigitChar(n % 10)>>

\* String.prototype.slice(-k): the last k characters, the whole string when shorter.
sliceFromEnd(s, k) == IF Len(s) <= k THEN s ELSE SubSeq(s, Len(s) - k + 1, Len(s))

\* Number.prototype.toFixed(1) of a distance in km held as metres: rounded to the
\* nearest tenth of a km, written with one decimal digit; the value is a string.
toFixed1(metres) ==
    LET tenths == (metres + 50) \div 100
    IN  JsString(Digits(tenths \div 10) \o <<".">> \o <<DigitChar(tenths % 10)>>)

-----------------------------------------------------------------------------
(* The data the remote service can answer with.                            *)

StationIds == {"s1", "s2", "s3"}

Station(id, diesel, e5, e10, isOpen, postCode, place, street, houseNumber, lat, lng) ==
    [id |-> id, diesel |-> diesel, e5 |-> e5, e10 |-> e10, isOpen |-> isOpen,
     postCode |-> postCode, place |-> place, street |-> street,
     houseNumber |-> houseNumber, lat |-> lat, lng |-> lng]

\* Raw stations as detail.php returns them (no `dist`): identifier, diesel, e5,
\* e10, isOpen, postCode, place, street, houseNumber, lat, lng.  s1 and s2 have
\* two price/opening states each; a price of 0 means "not reported".
RawStations ==
    { Station("s1", 2, 0, 3, TRUE,  12345, <<"A">>, <<"B">>, <<"1">>, 52, 13),
      Station("s1", 1, 3, 0, FALSE, 12345, <<"A">>, <<"B">>, <<"1">>, 52, 13),
      Station("s2", 3, 0, 1, FALSE, 1234,  <<"C">>, <<"D">>, <<"2">>, 53, 13),
      Station("s2", 0, 2, 2, TRUE,  1234,  <<"C">>, <<"D">>, <<"2">>, 53, 13),
      Station("s3", 1, 1, 0, TRUE,  123,   <<"F", "o", "o">>, <<"B", "a", "r">>, <<"4">>, 52, 14) }

\* list.php adds the provider-computed distance, a number, here in metres.
ProviderDist(id) == CASE id = "s1" -> 410 [] id = "s2" -> 1300 [] OTHER -> 2750

AreaStations == { [dist |-> JsNumber(ProviderDist(s.id))] @@ s : s \in RawStations }

RECURSIVE SeqsUpTo(_, _)
SeqsUpTo(S, n) ==
    IF n = 0 THEN {<<>>}
    ELSE LET shorter == SeqsUpTo(S, n - 1)
         IN  shorter \cup { Append(q, x) : q \in {q \in shorter : Len(q) = n - 1}, x \in S }

\* Parsed bodies of list.php: `ok` false, or `ok` true with any list of stations.
AreaResponses ==
    {[ok |-> FALSE, stations |-> <<>>]}
        \cup { [ok |-> TRUE, stations |-> l] : l \in SeqsUpTo(AreaStations, MaxStations) }

\* Parsed bodies of detail.php for a requested identifier.  The code never looks
\* at the rest of a body whose `ok` is false.
DetailResponses(id) ==
    LET known == {s \in RawStations : s.id = id}
    IN  { [ok |-> TRUE, station |-> s] : s \in known }
            \cup {[ok |-> FALSE, station |-> CHOOSE s \in known : TRUE]}

-----------------------------------------------------------------------------
(* Configurations (the `options` of the construction call).                *)

Origins == {[lat |-> 52, lng |-> 13], [lat |-> 53, lng |-> 14]}

Configs ==
    { [lat |-> o.lat, lng |-> o.lng, radius |-> 5, api_key |-> "key",
       sortBy |-> sb, types |-> ty, showOpenOnly |-> op, onlyStations |-> ids] :
        o \in Origins,
        sb \in {"diesel", "e5"},
        ty \in {<<>>, <<"diesel">>, <<"diesel", "e5">>},
        op \in BOOLEAN,
        ids \in SeqsUpTo(StationIds, MaxIds) }

-----------------------------------------------------------------------------
(* The helper functions of the module; each reads the global `config`,     *)
(* passed here as cfg.                                                     *)

\* lines 33-36; the url is the sequence of the template's pieces
generateUrl(cfg) ==
    <<BASE_URL, "?lat=", ToString(cfg.lat), "&lng=", ToString(cfg.lng), "&rad=",
      ToString(cfg.radius), "&type=all&apikey=", cfg.api_key, "&sort=dist">>

\* lines 44-46
generateUrlDetail(id, cfg) == <<BASE_URL_DETAIL, "?id=", id, "&apikey=", cfg.api_key>>

\* sortByPrice without its two zero-price branches
sortByPrice_plain(a, b, cfg) == a[cfg.sortBy] - b[cfg.sortBy]

\* lines 57-65
sortByPrice(a, b, cfg) ==
    IF b[cfg.sortBy] = 0 THEN MIN_SAFE_INTEGER
    ELSE IF a[cfg.sortBy] = 0 THEN MAX_SAFE_INTEGER
    ELSE a[cfg.sortBy] - b[cfg.sortBy]

\* lines 75-83: false as soon as one iteration of the loop over config.types
\* finds its condition true, true when the loop runs out
filterStations(station, cfg) ==
    ~ \E k \in 1..Len(cfg.types) :
        station[cfg.types[k]] <= 0 \/ (cfg.showOpenOnly /\ ~station.isOpen)

\* lines 126-134
checkStation(station, cfg) ==
    ~ \E k \in 1..Len(cfg.types) :
        station[cfg.types[k]] <= 0 \/ (cfg.showOpenOnly /\ ~station.isOpen)

\* lines 106-116, in metres.  The haversine formula needs sin, cos and atan2;
\* its values on the coordinates of the model (whole degrees around 52N 13E)
\* are tabulated, rounded to the metre:
\*   same point 0, one degree of latitude 111195, one degree of longitude
\*   68458 at 52N and 66918 at 53N, one degree of both 130175.
getDistance(pos1, pos2) ==
    LET dLat == IF pos2.lat >= pos1.lat THEN pos2.lat - pos1.lat ELSE pos1.lat - pos2.lat
        dLon == IF pos2.lng >= pos1.lng THEN pos2.lng - pos1.lng ELSE pos1.lng - pos2.lng
    IN  CASE dLat = 0 /\ dLon = 0 -> 0
          [] dLat = 1 /\ dLon = 0 -> 111195
          [] dLat = 0 /\ dLon = 1 /\ pos1.lat = 52 -> 68458
          [] dLat = 0 /\ dLon = 1 /\ pos1.lat = 53 -> 66918
          [] dLat = 1 /\ dLon = 1 -> 130175

\* lines 148-159: the station with `prices`, `distance` and `address` set
normalizeStations(value) ==
    [prices |-> [diesel |-> value.diesel, e5 |-> value.e5, e10 |-> value.e10],
     distance |-> value.dist,
     address |-> sliceFromEnd(<<"0">> \o Digits(value.postCode), 5) \o <<" ">>
                    \o value.place \o <<" ", "-", " ">> \o value.street
                    \o <<" ">> \o value.houseNumber] @@ value

-----------------------------------------------------------------------------
(* Array.prototype.sort(comparefn), line 206.  sortByPrice is not a         *)
(* consistent comparator when both stations have a zero price, and then the *)
(* order is whatever the engine's algorithm makes of the answers.  Node's   *)
(* two algorithms for short arrays are modelled: the insertion sort of V8   *)
(* up to 6.x (arrays of at most 10 elements) and the TimSort of V8 7.0 and  *)
(* later (one run detection, then binary insertion, below 64 elements).     *)

\* V8 <= 6.x InsertionSort: the element moves left past every tmp with
\* comparefn(tmp, element) > 0.
RECURSIVE insertLinear(_, _, _)
insertLinear(sorted, element, cfg) ==
    IF sorted = <<>> THEN <<element>>
    ELSE LET tmp == sorted[Len(sorted)]
         IN  IF sortByPrice(tmp, element, cfg) > 0
             THEN insertLinear(SubSeq(sorted, 1, Len(sorted) - 1), element, cfg) \o <<tmp>>
             ELSE sorted \o <<element>>

RECURSIVE insertionSortFrom(_, _, _)
insertionSortFrom(a, k, cfg) ==
    IF k > Len(a) THEN a
    ELSE insertionSortFrom(
            insertLinear(SubSeq(a, 1, k - 1), a[k], cfg) \o SubSeq(a, k + 1, Len(a)),
            k + 1, cfg)

InsertionSort(a, cfg) == insertionSortFrom(a, 2, cfg)

Reverse(s) == [k \in 1..Len(s) |-> s[Len(s) + 1 - k]]

\* V8 >= 7.0 CountAndMakeRun: the length of the run starting at the first
\* element; idx is the (1-based) index of the next element to look at.
RECURSIVE runEnd(_, _, _, _)
runEnd(a, idx, isDescending, cfg) ==
    IF idx > Len(a) THEN idx - 1
    ELSE LET order == sortByPrice(a[idx], a[idx - 1], cfg)
         IN  IF (isDescending /\ order >= 0) \/ (~isDescending /\ order < 0)
             THEN idx - 1
             ELSE runEnd(a, idx + 1, isDescending, cfg)

\* V8 >= 7.0 BinaryInsertionSort, the search: positions are 0-based as in V8.
RECURSIVE binaryPos(_, _, _, _, _)
binaryPos(a, pivot, left, right, cfg) ==
    IF left >= right THEN left
    ELSE LET mid == left + ((right - left) \div 2)
         IN  IF sortByPrice(pivot, a[mid + 1], cfg) < 0
             THEN binaryPos(a, pivot, left, mid, cfg)
             ELSE binaryPos(a, pivot, mid + 1, right, cfg)

\* ... and the loop: a[1..start] is sorted, a[start + 1] is inserted into it.
RECURSIVE binaryInsertionFrom(_, _, _)
binaryInsertionFrom(a, start, cfg) ==
    IF start >= Len(a) THEN a
    ELSE LET pivot == a[start + 1]
             left == binaryPos(a, pivot, 0, start, cfg)
         IN  binaryInsertionFrom(
                SubSeq(a, 1, left) \o <<pivot>> \o SubSeq(a, left + 1, start)
                    \o SubSeq(a, start + 2, Len(a)),
                start + 1, cfg)

TimSort(a, cfg) ==
    IF Len(a) < 2 THEN a
    ELSE LET isDescending == sortByPrice(a[2], a[1], cfg) < 0
             run == runEnd(a, 3, isDescending, cfg)
             made == IF isDescending
                     THEN Reverse(SubSeq(a, 1, run)) \o SubSeq(a, run + 1, Len(a))
                     ELSE a
         IN  binaryInsertionFrom(made, run, cfg)

\* line 206: the arrays `price.sort(sortByPrice)` can leave in `price`
ArraySort(a, cfg) == {InsertionSort(a, cfg), TimSort(a, cfg)}

\* slice(1) in place of slice(0): the copy misses the first station
slice0_dropsFirst(a) == SubSeq(a, 2, Len(a))

\* line 205: stations.slice(0), a copy of the array holding the same objects
slice0(a) == SubSeq(a, 1, Len(a))

\* no copy at line 205: `price` and `stations` are one array, sorted in place
makeResult_aliased(price, normalized) ==
    [types |-> <<"diesel", "e5", "e10">>, unit |-> "km", currency |-> "EUR",
     byPrice |-> price, byDistance |-> price]

\* lines 208-214: `price` has been sorted, `stations` normalised
makeResult(price, normalized) ==
    [types |-> <<"diesel", "e5", "e10">>, unit |-> "km", currency |-> "EUR",
     byPrice |-> price, byDistance |-> normalized]

\* lines 203-214: the objects getData can resolve with
getDataTail(list, cfg) ==
    LET normalized == [k \in 1..Len(list) |-> normalizeStations(list[k])]
    IN  { makeResult(sorted, normalized) : sorted \in ArraySort(slice0(normalized), cfg) }

-----------------------------------------------------------------------------
(* getData, lines 170-215, and the construction call, lines 235-239.       *)

\* `<= 1` in place of `< 1`
areaMode_offByOne(cfg) == Len(cfg.onlyStations) <= 1

\* line 173: the condition of the `if`
areaMode(cfg) == Len(cfg.onlyStations) < 1

\* line 187: the condition of the `for`, k counting from 0 as in the code
loopCondition(k, cfg) == k < Len(cfg.onlyStations)

\* the loop reading onlyStations from its end
loopStationId_reversed(k, cfg) == cfg.onlyStations[Len(cfg.onlyStations) - k]

\* line 188: config.onlyStations[i]
loopStationId(k, cfg) == cfg.onlyStations[k + 1]

\* the `ok` check left out
responseFailed_never(parsed) == FALSE

\* lines 177 and 191: !parsedResponse.ok
responseFailed(parsed) == ~parsed.ok

\* line 197: station["dist"] = getDistance(station, {lat, lng}).toFixed(1)
withDist(station, cfg) ==
    [dist |-> toFixed1(getDistance(station, [lat |-> cfg.lat, lng |-> cfg.lng]))] @@ station

\* line 181: Array.prototype.filter keeps the elements filterStations accepts
filterList(list, cfg) == SelectSeq(list, LAMBDA s : filterStations(s, cfg))

Init ==
    /\ config \in Configs
    /\ owner = config
    /\ pc = "idle"
    /\ i = 0
    /\ stations = <<>>
    /\ result = <<>>
    /\ error = ""
    /\ reqs = <<>>
    /\ outcomes = <<>>
    /\ arrived = <<>>
    /\ cfgRead = config

\* getData is called: lines 171-174 (area) or 171-188 (detail), up to the first await
Start ==
    /\ pc = "idle"
    /\ cfgRead' = config
    /\ IF areaMode(config)
       THEN /\ reqs' = Append(reqs, generateUrl(config))
            /\ pc' = "areaFetch"
            /\ UNCHANGED <<i, stations>>
       ELSE /\ stations' = <<>>
            /\ i' = 0
            /\ loopCondition(0, config)
            /\ reqs' = Append(reqs, generateUrlDetail(loopStationId(0, config), config))
            /\ pc' = "detailFetch"
    /\ UNCHANGED <<config, owner, result, error, outcomes, arrived>>

\* lines 174 and 188: fetch resolves with a response; response.json() is awaited next
FetchResolve ==
    /\ pc \in {"areaFetch", "detailFetch"}
    /\ pc' = IF pc = "areaFetch" THEN "areaJson" ELSE "detailJson"
    /\ UNCHANGED <<config, owner, i, stations, result, error, reqs, outcomes, arrived, cfgRead>>

\* lines 174 and 188: fetch rejects (a transport failure); getData rejects with it
FetchReject ==
    /\ pc \in {"areaFetch", "detailFetch"}
    /\ pc' = "failed"
    /\ error' = "request failed"
    /\ outcomes' = Append(outcomes, "transport")
    /\ UNCHANGED <<config, owner, i, stations, result, reqs, arrived, cfgRead>>

\* lines 175 and 189: response.json() rejects (the body is not JSON)
JsonReject ==
    /\ pc \in {"areaJson", "detailJson"}
    /\ pc' = "failed"
    /\ error' = "invalid json"
    /\ outcomes' = Append(outcomes, "badjson")
    /\ UNCHANGED <<config, owner, i, stations, result, reqs, arrived, cfgRead>>

\* lines 175-181 and 203-214: the area response is parsed; getData runs to its end
AreaJson(parsed) ==
    /\ pc = "areaJson"
    /\ cfgRead' = config
    /\ outcomes' = Append(outcomes, IF parsed.ok THEN "ok" ELSE "notok")
    /\ IF responseFailed(parsed)
       THEN /\ pc' = "failed"
            /\ error' = "Error no fuel data"
            /\ UNCHANGED <<stations, result, arrived>>
       ELSE /\ arrived' = parsed.stations
            /\ \E r \in getDataTail(filterList(parsed.stations, config), config) :
                /\ result' = <<r>>
                /\ stations' = r.byDistance
            /\ pc' = "done"
            /\ UNCHANGED error
    /\ UNCHANGED <<config, owner, i, reqs>>

\* lines 189-200 and, after the last station, 203-214: a detail response is
\* parsed; getData runs to the next fetch or to its end
DetailJson(parsed) ==
    /\ pc = "detailJson"
    /\ cfgRead' = config
    /\ outcomes' = Append(outcomes, IF parsed.ok THEN "ok" ELSE "notok")
    /\ IF responseFailed(parsed)
       THEN /\ pc' = "failed"
            /\ error' = "Error no fuel data or station id not found"
            /\ UNCHANGED <<i, stations, result, reqs, arrived>>
       ELSE LET pushed == IF checkStation(parsed.station, config)
                          THEN Append(stations, withDist(parsed.station, config))
                          ELSE stations
            IN  /\ arrived' = Append(arrived, parsed.station)
                /\ i' = i + 1
                /\ IF loopCondition(i + 1, config)
                   THEN /\ stations' = pushed
                        /\ reqs' = Append(reqs,
                                generateUrlDetail(loopStationId(i + 1, config), config))
                        /\ pc' = "detailFetch"
                        /\ UNCHANGED result
                   ELSE /\ \E r \in getDataTail(pushed, config) :
                            /\ result' = <<r>>
                            /\ stations' = r.byDistance
                        /\ pc' = "done"
                        /\ UNCHANGED reqs
                /\ UNCHANGED error
    /\ UNCHANGED <<config, owner>>

\* the bodies detail.php can answer the request in flight with (the third piece
\* of its url is the identifier it asks for)
detailBodies == IF pc = "detailJson" THEN DetailResponses(reqs[Len(reqs)][3]) ELSE {}

Next ==
    \/ Start
    \/ FetchResolve
    \/ FetchReject
    \/ JsonReject
    \/ \E parsed \in AreaResponses : AreaJson(parsed)
    \/ \E parsed \in detailBodies : DetailJson(parsed)

Spec == Init /\ [][Next]_vars

-----------------------------------------------------------------------------
(* Several construction calls.  Every call assigns the one module-wide      *)
(* `config` (line 236) and returns the same getData (line 238); the         *)
(* invocation followed here is the one of the first call's getData, and    *)
(* the construction calls are followed until that invocation has settled.  *)

\* the configurations the construction calls of this specification are given
MultiConfigs ==
    { c \in Configs :
        /\ c.onlyStations \in {<<>>, <<"s2">>, <<"s1", "s2">>}
        /\ \/ c.lat = 52 /\ c.sortBy = "diesel" /\ c.types = <<"diesel">> /\ ~c.showOpenOnly
           \/ c.lat = 53 /\ c.sortBy = "e5" /\ c.types = <<"diesel", "e5">> /\ c.showOpenOnly }

\* lines 235-239: module.exports(options)
Construct(options) ==
    /\ pc \notin {"done", "failed"}
    /\ options # config
    /\ config' = options
    /\ UNCHANGED <<owner, pc, i, stations, result, error, reqs, outcomes, arrived, cfgRead>>

InitMulti == Init /\ config \in MultiConfigs

NextMulti ==
    \/ Next
    \/ \E options \in MultiConfigs : Construct(options)

SpecMulti == InitMulti /\ [][NextMulti]_vars

-----------------------------------------------------------------------------
(* The claims.                                                             *)

Range(s) == {s[k] : k \in 1..Len(s)}
Count(s, x) == Cardinality({k \in 1..Len(s) : s[k] = x})
AllOk(log) == \A k \in 1..Len(log) : log[k] = "ok"
detailMode == Len(config.onlyStations) >= 1
byPrice == result[1].byPrice
byDistance == result[1].byDistance

\* C1: when a response has a non-true `ok` or a request fails, getData rejects
\* and resolves with no Result, whatever position the failing request has and
\* whatever the earlier stations were; an `ok`-false body gives the message
\* 'Error no fuel data or station id not found' in Detail Mode and
\* 'Error no fuel data' in Area Mode.
C1_FailureYieldsNoResult ==
    ~AllOk(outcomes) =>
        /\ pc = "failed"
        /\ result = <<>>
        /\ error # ""
        /\ outcomes[Len(outcomes)] = "notok" =>
                error = IF detailMode THEN "Error no fuel data or station id not found"
                        ELSE "Error no fuel data"

\* C1 witness: the second of two detail requests is answered `ok` false after
\* the first station was kept
C1_Witness ==
    /\ detailMode
    /\ Len(outcomes) = 2
    /\ outcomes[2] = "notok"
    /\ Len(stations) = 1
    /\ pc = "failed"

\* C2: in Detail Mode the requests go out one at a time in the order of
\* onlyStations: at most one is in flight, request k+1 is issued only after
\* response k was parsed with `ok` true, a station the filter rejects does not
\* stop the next request, and nothing is requested after a failed response.
C2_Sequential ==
    /\ Len(reqs) - Len(outcomes) \in {0, 1}
    /\ detailMode =>
        /\ Len(reqs) <= Len(config.onlyStations)
        /\ \A k \in 1..Len(reqs) :
                reqs[k] = <<BASE_URL_DETAIL, "?id=", config.onlyStations[k],
                            "&apikey=", config.api_key>>
        /\ \A k \in 1..(Len(reqs) - 1) : outcomes[k] = "ok"
        /\ (pc # "idle" /\ AllOk(outcomes) /\ Len(outcomes) < Len(config.onlyStations))
                => Len(reqs) = Len(outcomes) + 1
        /\ ~AllOk(outcomes) => (pc = "failed" /\ Len(reqs) = Len(outcomes))

\* C2 witness: the first station was rejected by the filter and the second,
\* different station is being requested
C2_Witness ==
    /\ detailMode
    /\ Len(reqs) = 2
    /\ Len(outcomes) = 1
    /\ Len(arrived) = 1
    /\ ~checkStation(arrived[1], config)
    /\ config.onlyStations[1] # config.onlyStations[2]

\* C3: getData of a construction call with configuration C reads only C at
\* every step, also when another construction call happens before it starts or
\* while it is suspended.
C3_ReadsOnlyOwnConfig == cfgRead = owner

\* the condition under which the specified filter excludes a station
excluded(station, cfg) ==
    \/ \E k \in 1..Len(cfg.types) : station[cfg.types[k]] <= 0
    \/ cfg.showOpenOnly /\ ~station.isOpen

\* C4: for every station that arrives and every configuration, also one with
\* no required fuel type, the filter returns false exactly when a required
\* type's price is <= 0 or showOpenOnly is set and the station is closed;
\* filterStations and checkStation agree.
C4_FilterIff ==
    \A s \in Range(arrived) :
        /\ filterStations(s, config) = ~excluded(s, config)
        /\ checkStation(s, config) = ~excluded(s, config)

\* C5: in byPrice no station with a zero sort-field price precedes one with a
\* strictly positive sort-field price, and the strictly positive prices are in
\* non-decreasing order.
C5_ZeroPricesLast ==
    pc = "done" =>
        \A a, b \in 1..Len(byPrice) :
            a < b =>
                LET pa == byPrice[a][config.sortBy]
                    pb == byPrice[b][config.sortBy]
                IN  /\ ~(pa = 0 /\ pb > 0)
                    /\ (pa > 0 /\ pb > 0) => pa <= pb

\* C5 witness: four stations arrived with sort-field prices 0, x, 0, y, x > y > 0
C5_Witness ==
    /\ pc = "done"
    /\ Len(byDistance) = 4
    /\ byDistance[1][config.sortBy] = 0
    /\ byDistance[3][config.sortBy] = 0
    /\ byDistance[4][config.sortBy] > 0
    /\ byDistance[2][config.sortBy] > byDistance[4][config.sortBy]

\* C6: byPrice is a permutation of byDistance: the same length and the same
\* stations, each with the same field values, the same number of times.
C6_Permutation ==
    pc = "done" =>
        /\ Len(byPrice) = Len(byDistance)
        /\ \A s \in Range(byPrice) \cup Range(byDistance) :
                Count(byPrice, s) = Count(byDistance, s)

\* C6 witness: a result whose two orders differ and that holds a station twice
C6_Witness ==
    /\ pc = "done"
    /\ Len(byDistance) >= 3
    /\ byPrice # byDistance
    /\ \E s \in Range(byDistance) : Count(byDistance, s) = 2

\* the fields of the raw station `raw` have the same values in `station`
sameRawFields(station, raw) == \A f \in DOMAIN raw : station[f] = raw[f]

\* C7: byDistance is the stations that passed the filter, in the order they
\* arrived, whatever the order of byPrice.
C7_ByDistanceArrivalOrder ==
    pc = "done" =>
        LET passed(s) == IF detailMode THEN checkStation(s, config)
                         ELSE filterStations(s, config)
            kept == SelectSeq(arrived, passed)
        IN  /\ Len(byDistance) = Len(kept)
            /\ \A k \in 1..Len(kept) : sameRawFields(byDistance[k], kept[k])

\* C7 witness: some station was filtered out, and sorting by price changed the order
C7_Witness ==
    /\ pc = "done"
    /\ Len(byDistance) >= 2
    /\ Len(byDistance) < Len(arrived)
    /\ byPrice # byDistance

\* the postal code written with at least five digits, zeros added on the left
RECURSIVE zeroPad5(_)
zeroPad5(digits) == IF Len(digits) >= 5 THEN digits ELSE zeroPad5(<<"0">> \o digits)

\* C8: the address of every station of the result is the postal code zero-padded
\* to five digits, then ' <place> - <street> <houseNumber>'.
C8_AddressZeroPadded ==
    pc = "done" =>
        \A s \in Range(byDistance) :
            s.address = zeroPad5(Digits(s.postCode)) \o <<" ">> \o s.place
                            \o <<" ", "-", " ">> \o s.street \o <<" ">> \o s.houseNumber

\* C9: with onlyStations empty getData issues exactly one request, to the area
\* endpoint; with onlyStations non-empty it issues no area request and, when it
\* resolves, has issued exactly one detail request per identifier.
C9_ModeSelection ==
    /\ Len(config.onlyStations) = 0 =>
        /\ Len(reqs) <= 1
        /\ pc # "idle" => (Len(reqs) = 1 /\ reqs[1][1] = BASE_URL)
    /\ Len(config.onlyStations) > 0 =>
        /\ \A k \in 1..Len(reqs) : reqs[k][1] = BASE_URL_DETAIL
        /\ pc = "done" =>
            /\ Len(reqs) = Len(config.onlyStations)
            /\ \A k \in 1..Len(reqs) : reqs[k][3] = config.onlyStations[k]
    /\ pc = "done" => Len(result) = 1

\* C9 witness: getData resolved after one detail request for each of two identifiers
C9_Witness ==
    /\ pc = "done"
    /\ Len(config.onlyStations) = 2
    /\ Len(reqs) = 2
    /\ Len(result) = 1

\* C10: the distance of every station of the result is a number: in Detail Mode
\* the distance to the configured origin rounded to one decimal place, in Area
\* Mode the provider's `dist` unchanged.
C10_DistanceIsNumber ==
    pc = "done" =>
        \A s \in Range(byDistance) :
            /\ s.distance.typeof = "number"
            /\ detailMode =>
                s.distance.num =
                    ((getDistance(s, [lat |-> config.lat, lng |-> config.lng]) + 50) \div 100) * 100
            /\ ~detailMode => s.distance = JsNumber(ProviderDist(s.id))

====
